---- MODULE Spec2Model ----
(***************************************************************************)
(* A model of the promise wrapper around node-imap in this repository:     *)
(* getMessage (the message assembler) and ImapSimple.search.               *)
(*                                                                         *)
(* Event emitters are modelled by the set of listeners they hold; the      *)
(* environment (node-imap, the streams) emits events in any order, and     *)
(* each action is one emitted event together with the whole handler the    *)
(* code has registered for it (or nothing, when no listener is left).      *)
(***************************************************************************)
EXTENDS Integers, Sequences, FiniteSets, TLC

(***************************************************************************)
(* Bounds of the model.                                                    *)
(***************************************************************************)
MaxMsgs == 2       \* ImapMessage objects that exist in one run
MaxBodies == 2     \* 'body' events one message emits
MaxChunks == 2     \* 'data' events the body streams of one message emit
MaxAttrs == 1      \* 'attributes' events one message emits
MaxUids == 2       \* uids the server search returns
MaxSeqNo == 3      \* the highest sequence number a fetch reports

Msgs == 1..MaxMsgs

(***************************************************************************)
(* Inputs.                                                                 *)
(***************************************************************************)
\* the info of a body event: which and size
InfoValues ==
  {[which |-> "HEADER", size |-> 7],
   [which |-> "HEADER.FIELDS (FROM)", size |-> 3],
   [which |-> "TEXT", size |-> 0]}
\* the payload of an 'attributes' event: opaque to the wrapper but for its uid
Attrs(uid) == [uid |-> uid]
AttrValues == {Attrs(1), Attrs(2)}
\* the value of a `let` that was never assigned
Undefined == [undefined |-> TRUE]
\* Buffers handed to streamOnData: "H" followed by the first byte of a
\* two-byte sequence, and the second byte of that sequence
ChunkValues == {<<72, 195>>, <<169>>}
\* the two getMessage sources of the repository
Variants == {"helpers/getMessage.ts", "part_002"}

(***************************************************************************)
(* Pure functions.                                                         *)
(***************************************************************************)
RECURSIVE Utf8ToString(_)
\* chunk.toString('utf8'): bytes to code points; a byte that is no complete
\* sequence within this chunk decodes to U+FFFD
Utf8ToString(bytes) ==
  IF bytes = <<>> THEN <<>>
  ELSE LET b == Head(bytes) IN
       IF b < 128 THEN <<b>> \o Utf8ToString(Tail(bytes))
       ELSE IF b >= 194 /\ b <= 223 /\ Len(bytes) >= 2
               /\ bytes[2] >= 128 /\ bytes[2] <= 191
            THEN <<(b - 192) * 64 + (bytes[2] - 128)>>
                   \o Utf8ToString(Tail(Tail(bytes)))
            ELSE <<65533>> \o Utf8ToString(Tail(bytes))

\* body += chunk.toString('utf8')
streamOnDataMutant(body, chunk) == Utf8ToString(chunk) \o body
streamOnData(body, chunk) == body \o Utf8ToString(chunk)

\* does the string start with "HEADER" (the pattern ^HEADER at index 0)
StartsWithHEADER(which) == Len(which) >= 6 /\ SubSeq(which, 1, 6) = "HEADER"

\* RegExp.prototype.test of /^HEADER/g started at lastIndex: a global regex
\* starts matching at lastIndex, ^ matches at index 0 only, a match leaves
\* lastIndex after it and a failure resets it to 0
RegExpTest(which, lastIndex) ==
  IF lastIndex <= Len(which) /\ lastIndex = 0 /\ StartsWithHEADER(which)
  THEN [matched |-> TRUE, lastIndex |-> 6]
  ELSE [matched |-> FALSE, lastIndex |-> 0]

\* a body that is the raw accumulated string
RawBody(text) == [kind |-> "string", text |-> text]
\* node-imap's parseHeader: the field mapping parsed out of the raw text
parseHeader(text) == [kind |-> "mapping", text |-> text]

VARIABLES
  variant,      \* which getMessage source is built
  exists,       \* exists[m]: the ImapMessage m has been created by node-imap
  listeners,    \* listeners[m]: the listeners getMessage holds on message m
  attributes,   \* attributes[m]: the `attributes` variable of getMessage
  parts,        \* parts[m]: the `parts` array of getMessage
  isHeader,     \* isHeader[m]: lastIndex of the shared regex (part_002)
  promise,      \* promise[m]: the promise getMessage returned
  streams,      \* streams[m]: the body streams of m, in emission order
  emitted,      \* emitted[m]: history of what the source of m has emitted
  logical,      \* the logical message two event streams carry (SpecPair)
  searchPromise,     \* the promise search returned
  fetch,             \* the ImapFetch of the search: listeners and history
  uids,              \* the uids the server search returned
  messagesRetrieved, \* the counter of search
  messages,          \* the sparse `messages` array of search
  fetchSeqNo,        \* fetchSeqNo[m]: the seqNo the fetch emitted m with
  msgSeqNo,          \* msgSeqNo[m]: the seqNo field of the Message of m
  reaction,          \* reaction[m]: the .then callback on getMessage(m)
  retrievedOrder,    \* history: the messages in the order their callbacks ran
  calledPart,        \* the part descriptor getPartData was called with
  partPromise,       \* the promise getPartData returned
  partFetch,         \* the ImapFetch of getPartData: listeners and history
  partMessage,       \* the message fetchOnMessage called getMessage on, or 0
  partRun,           \* history: the run of the .then callback of getPartData
  fetchCalls,        \* history: the calls of imap.fetch by getPartData
  mailbox,           \* mailbox[u]: the message with uid u in the open mailbox
  mailboxBefore,     \* history: the mailbox when deleteMessage was called
  deleteUids,        \* the uids deleteMessage was called with
  deleteStage,       \* the node-imap call deleteMessage is waiting for
  deletePromise,     \* the promise deleteMessage returned
  options,           \* the own properties of the options connect was given
  connListeners,     \* the listeners connect holds on the connection
  connLog,           \* history: the calls connect made on the connection
  connectPromise,    \* the promise connect returned
  connHistory,       \* history: which of ready, error, close, end were emitted
  emittedCount,      \* history: the server events the connection emitted
  invoked,           \* history: the invocations of the option callbacks
  imapConfig,        \* options.imap: whether authTimeout is given, and its value
  handlerRuns,       \* history: the runs of the four handlers of connect
  struct,            \* the struct argument of getParts
  partsArg,          \* the parts argument of getParts: given or not, its value
  partsResult,       \* what getParts returned, once it has
  ending,            \* the `ending` flag of ImapSimple
  closeOnce,         \* the once('close') listeners end() has registered
  history            \* history: the events of the connection, the events
                     \* ImapSimple emitted and the calls of end(), in order

msgVars == <<variant, exists, listeners, attributes, parts, isHeader, promise,
             streams, emitted, logical>>
searchVars == <<searchPromise, fetch, uids, messagesRetrieved, messages,
                fetchSeqNo, msgSeqNo, reaction, retrievedOrder>>
partVars == <<calledPart, partPromise, partFetch, partMessage, partRun, fetchCalls>>
boxVars == <<mailbox, mailboxBefore, deleteUids, deleteStage, deletePromise>>
connVars == <<options, connListeners, connLog, connectPromise, connHistory,
              emittedCount, invoked, imapConfig, handlerRuns>>
structVars == <<struct, partsArg, partsResult>>
simpleVars == <<ending, closeOnce, history>>
restVars == <<partVars, boxVars, connVars, structVars, simpleVars>>
vars == <<msgVars, searchVars, restVars>>

NoListeners == [body |-> FALSE, attributes |-> FALSE, end |-> FALSE]
\* message.on('body'), message.once('attributes'), message.once('end')
GetMessageListeners == [body |-> TRUE, attributes |-> TRUE, end |-> TRUE]
Pending == [state |-> "pending", attributes |-> Undefined]
NoHistory == [attrs |-> <<>>, ended |-> FALSE, endOrder |-> <<>>]
NoLogical == [bodies |-> <<>>, attributes |-> Undefined]
\* an index of the `messages` array nothing was assigned to
Hole == 0
\* the fetch before imap.fetch is called: no listeners, nothing emitted
NoFetch ==
  [created |-> FALSE,
   listeners |-> [message |-> FALSE, error |-> FALSE, end |-> FALSE],
   emittedError |-> FALSE, emittedEnd |-> FALSE]

\* a decoded value: the library decoders applied, the text they produced
\* (for the decoders the model does not compute: the text handed to them), and
\* the charset passed along
Value(steps, text, charset) == [steps |-> steps, text |-> text, charset |-> charset]
NoValue == Value(<<>>, <<>>, "")
\* new Error(...)
Err(message, encoding, count) ==
  [message |-> message, encoding |-> encoding, count |-> count]
NoErr == Err("", "", 0)

\* what one run of a callback does with the promise: resolve(value),
\* reject(error), or an exception that leaves the promise as it is
Resolved(rule, value) == [kind |-> "resolve", rule |-> rule, value |-> value, error |-> NoErr]
Rejected(error) == [kind |-> "reject", rule |-> "none", value |-> NoValue, error |-> error]
Thrown(rule) == [kind |-> "throw", rule |-> rule, value |-> NoValue, error |-> NoErr]

\* part.params: absent, or present with a charset; "" stands for a charset
\* that is absent or empty (both are falsy)
NoParams == [present |-> FALSE, charset |-> ""]
Params(charset) == [present |-> TRUE, charset |-> charset]
\* a settled or pending promise of getPartData
PartPending == [state |-> "pending", value |-> NoValue, error |-> NoErr]
\* the callback of getPartData has not run
NotRun == [ran |-> FALSE, count |-> 0, outcome |-> Thrown("none")]

\* the lastIndex the header test starts from: getMessage.ts evaluates the
\* regex literal anew for every part, part_002 shares one regex object
IsHeaderLastIndex(m) ==
  IF variant = "part_002" THEN isHeader[m] ELSE 0

\* parts.push(part)
PushPartMutant(ps, part) == <<part>> \o ps
PushPart(ps, part) == Append(ps, part)

\* the part built when a stream ends; `stream` records the body event it
\* comes from and is no field of the program's part
MakePart(m, s) ==
  LET st == streams[m][s]
      t == RegExpTest(st.info.which, IsHeaderLastIndex(m)) IN
  [which |-> st.info.which,
   size |-> st.info.size,
   body |-> IF t.matched THEN parseHeader(st.body) ELSE RawBody(st.body),
   stream |-> s]

\* the accumulator a listener of message m writes to: `attributes` and
\* `parts` are locals of the getMessage call on m
AccumulatorMutant(m) == 1
Accumulator(m) == m

\* attributes = attrs
messageOnAttributesMutant(old, attrs) == old
messageOnAttributes(old, attrs) == attrs

\* message.removeListener('body'), message.removeListener('attributes');
\* the once('end') listener is removed by its own call
ListenersAfterEndMutant(l) == [l EXCEPT !.end = FALSE]
ListenersAfterEnd(l) == NoListeners

\* resolve({ attributes, parts }): the attributes value is copied, the
\* parts array is shared with the closure
ResolveMutant(m) == [state |-> "rejected", attributes |-> attributes[m]]
Resolve(m) == [state |-> "fulfilled", attributes |-> attributes[m]]

\* the Message the promise of m holds
MessageOf(m) == [attributes |-> promise[m].attributes, parts |-> parts[m]]

(***************************************************************************)
(* getMessage(message)                                                     *)
(***************************************************************************)
\* getMessage(message): the state after the executor has run
GetMessageCalled(m) ==
  /\ listeners' = [listeners EXCEPT ![m] = GetMessageListeners]
  /\ attributes' = [attributes EXCEPT ![m] = Undefined]
  /\ parts' = [parts EXCEPT ![m] = <<>>]
  /\ isHeader' = [isHeader EXCEPT ![m] = 0]
  /\ promise' = [promise EXCEPT ![m] = Pending]

\* the message emits 'body' with a new stream; messageOnBody runs when the
\* listener is registered
MessageEmitBody(m, info, limit) ==
  /\ exists[m]
  /\ Len(streams[m]) < limit
  /\ streams' = [streams EXCEPT ![m] = Append(@,
       [info |-> info,
        body |-> <<>>,
        dataListener |-> listeners[m].body,
        endListener |-> listeners[m].body,
        ended |-> FALSE,
        chunks |-> <<>>,
        late |-> emitted[m].ended])]
  /\ UNCHANGED <<variant, exists, listeners, attributes, parts, isHeader,
                 promise, emitted, logical>>
  /\ UNCHANGED <<searchVars, restVars>>

RECURSIVE ChunksEmitted(_, _)
\* the number of 'data' events the first n streams of a message have emitted
ChunksEmitted(ss, n) ==
  IF n = 0 THEN 0 ELSE ChunksEmitted(ss, n - 1) + Len(ss[n].chunks)

\* a body stream emits 'data'
StreamEmitData(m, s, chunk) ==
  /\ s \in 1..Len(streams[m])
  /\ ~streams[m][s].ended
  /\ streams[m][s].dataListener    \* a stream nobody reads does not flow
  /\ ChunksEmitted(streams[m], Len(streams[m])) < MaxChunks
  /\ streams' = [streams EXCEPT ![m][s] =
       [@ EXCEPT !.chunks = Append(@, chunk),
                 !.body = streamOnData(@, chunk)]]
  /\ UNCHANGED <<variant, exists, listeners, attributes, parts, isHeader,
                 promise, emitted, logical>>
  /\ UNCHANGED <<searchVars, restVars>>

\* a body stream emits 'end'; the once('end') listener removes the data
\* listener and pushes the part
StreamEmitEnd(m, s) ==
  /\ s \in 1..Len(streams[m])
  /\ ~streams[m][s].ended
  /\ streams' = [streams EXCEPT ![m][s] =
       [@ EXCEPT !.ended = TRUE, !.dataListener = FALSE, !.endListener = FALSE]]
  /\ emitted' = [emitted EXCEPT ![m].endOrder = Append(@, s)]
  /\ IF streams[m][s].endListener
     THEN /\ parts' = [parts EXCEPT ![Accumulator(m)] = PushPart(@, MakePart(m, s))]
          /\ isHeader' = [isHeader EXCEPT ![m] =
               IF variant = "part_002"
               THEN RegExpTest(streams[m][s].info.which, @).lastIndex ELSE @]
     ELSE UNCHANGED <<parts, isHeader>>
  /\ UNCHANGED <<variant, exists, listeners, attributes, promise, logical>>
  /\ UNCHANGED <<searchVars, restVars>>

\* the message emits 'attributes'; the once listener runs at most once
MessageEmitAttributes(m, attrs) ==
  /\ exists[m]
  /\ Len(emitted[m].attrs) < MaxAttrs
  /\ emitted' = [emitted EXCEPT ![m].attrs =
       Append(@, [payload |-> attrs, late |-> emitted[m].ended])]
  /\ IF listeners[m].attributes
     THEN /\ attributes' = [attributes EXCEPT ![Accumulator(m)] =
               messageOnAttributes(@, attrs)]
          /\ listeners' = [listeners EXCEPT ![m].attributes = FALSE]
     ELSE UNCHANGED <<attributes, listeners>>
  /\ UNCHANGED <<variant, exists, parts, isHeader, promise, streams, logical>>
  /\ UNCHANGED <<searchVars, restVars>>

\* the message emits 'end'; messageOnEnd removes the listeners and resolves
MessageEmitEnd(m) ==
  /\ exists[m]
  /\ ~emitted[m].ended
  /\ emitted' = [emitted EXCEPT ![m].ended = TRUE]
  /\ IF listeners[m].end
     THEN /\ listeners' = [listeners EXCEPT ![m] = ListenersAfterEnd(@)]
          /\ promise' = [promise EXCEPT ![m] = Resolve(m)]
     ELSE UNCHANGED <<listeners, promise>>
  /\ UNCHANGED <<variant, exists, attributes, parts, isHeader, streams, logical>>
  /\ UNCHANGED <<searchVars, restVars>>

(***************************************************************************)
(* One message assembled by getMessage.                                    *)
(***************************************************************************)
\* no search is running
NoSearch ==
  /\ searchPromise = [state |-> "pending", value |-> <<>>]
  /\ fetch = NoFetch
  /\ uids = <<>>
  /\ messagesRetrieved = 0
  /\ messages = [i \in 0..MaxSeqNo |-> Hole]
  /\ fetchSeqNo = [m \in Msgs |-> 0]
  /\ msgSeqNo = [m \in Msgs |-> 0]
  /\ reaction = [m \in Msgs |-> "none"]
  /\ retrievedOrder = <<>>

\* getPartData has not been called
NoPartData ==
  /\ calledPart = [partID |-> "", encoding |-> "", params |-> NoParams]
  /\ partPromise = PartPending
  /\ partFetch = NoFetch
  /\ partMessage = 0
  /\ partRun = NotRun
  /\ fetchCalls = 0

\* the uids of the mailbox
MaxBoxUids == 3
BoxUids == 1..MaxBoxUids
\* deleteMessage has not been called and no mailbox is looked at
NoBox ==
  /\ mailbox = [u \in BoxUids |-> "absent"]
  /\ mailboxBefore = [u \in BoxUids |-> "absent"]
  /\ deleteUids = {}
  /\ deleteStage = "idle"
  /\ deletePromise = [state |-> "pending", value |-> ""]

\* the events of the connection the option callbacks are for
ServerEvents == {"mail", "expunge", "update"}
\* what the promise of connect is settled with, and the errors of the
\* connection: a name, the source of the error, the timeout of the error
ConnValue(name, source, timeout) ==
  [name |-> name, source |-> source, timeout |-> timeout]
\* the connection before connect registers anything
NoConnListeners ==
  [ready |-> FALSE, error |-> FALSE, close |-> FALSE, end |-> FALSE,
   mail |-> FALSE, expunge |-> FALSE, update |-> FALSE]
\* connect has not been called
NoConnect ==
  /\ options = {}
  /\ connListeners = NoConnListeners
  /\ connLog = <<>>
  /\ connectPromise = [state |-> "pending", value |-> ConnValue("", "", 0)]
  /\ connHistory = [ready |-> FALSE, error |-> FALSE, close |-> FALSE, end |-> FALSE,
                    first |-> "", err |-> ConnValue("", "", 0)]
  /\ emittedCount = [ev \in ServerEvents |-> 0]
  /\ invoked = [ev \in ServerEvents |-> 0]
  /\ imapConfig = [given |-> FALSE, authTimeout |-> 0, effective |-> 0]
  /\ handlerRuns = 0

\* getParts has not been called
NoStruct ==
  /\ struct = <<>>
  /\ partsArg = [given |-> FALSE, list |-> <<>>]
  /\ partsResult = [done |-> FALSE, list |-> <<>>]

\* no ImapSimple has been constructed
NoSimple ==
  /\ ending = FALSE
  /\ closeOnce = 0
  /\ history = <<>>

\* nothing but getMessage and search is in use
NoRest == NoPartData /\ NoBox /\ NoConnect /\ NoStruct /\ NoSimple

\* getMessage has been called on each message of `called`
InitMessages(called) ==
  /\ variant \in Variants
  /\ exists = [m \in Msgs |-> m \in called]
  /\ listeners = [m \in Msgs |-> IF m \in called THEN GetMessageListeners ELSE NoListeners]
  /\ attributes = [m \in Msgs |-> Undefined]
  /\ parts = [m \in Msgs |-> <<>>]
  /\ isHeader = [m \in Msgs |-> 0]
  /\ promise = [m \in Msgs |-> Pending]
  /\ streams = [m \in Msgs |-> <<>>]
  /\ emitted = [m \in Msgs |-> NoHistory]

InitMessage ==
  /\ InitMessages({1})
  /\ logical = NoLogical
  /\ NoSearch
  /\ NoRest

NextMessage ==
  \/ \E info \in InfoValues : MessageEmitBody(1, info, MaxBodies)
  \/ \E s \in 1..MaxBodies, c \in ChunkValues : StreamEmitData(1, s, c)
  \/ \E s \in 1..MaxBodies : StreamEmitEnd(1, s)
  \/ \E a \in AttrValues : MessageEmitAttributes(1, a)
  \/ MessageEmitEnd(1)

SpecMessage == InitMessage /\ [][NextMessage]_vars

(***************************************************************************)
(* Two getMessage calls fed the same logical message: each source emits    *)
(* every body of the message once, in an order of its own, each stream     *)
(* delivers the chunks of its body and ends, the attributes are emitted    *)
(* once, and the source ends after all of this.                            *)
(***************************************************************************)
PairMsgs == {1, 2}

\* the logical messages: two body parts with different `which`, the first
\* with one chunk of content, and the attributes
LogicalMessages ==
  {[bodies |-> <<[info |-> i1, chunks |-> <<c>>], [info |-> i2, chunks |-> <<>>]>>,
    attributes |-> a] :
     i1 \in InfoValues, i2 \in InfoValues, c \in ChunkValues, a \in AttrValues}

\* the body of the logical message that a stream carries
LogicalBody(info) ==
  CHOOSE b \in {logical.bodies[k] : k \in 1..Len(logical.bodies)} : b.info = info

InitPair ==
  /\ InitMessages(PairMsgs)
  /\ logical \in {l \in LogicalMessages :
                    l.bodies[1].info.which # l.bodies[2].info.which}
  /\ NoSearch
  /\ NoRest

PairEmitBody(m) ==
  \E k \in 1..Len(logical.bodies) :
    /\ \A s \in 1..Len(streams[m]) : streams[m][s].info # logical.bodies[k].info
    /\ MessageEmitBody(m, logical.bodies[k].info, Len(logical.bodies))

PairEmitData(m, s) ==
  /\ s \in 1..Len(streams[m])
  /\ Len(streams[m][s].chunks) < Len(LogicalBody(streams[m][s].info).chunks)
  /\ StreamEmitData(m, s,
       LogicalBody(streams[m][s].info).chunks[Len(streams[m][s].chunks) + 1])

PairEmitStreamEnd(m, s) ==
  /\ s \in 1..Len(streams[m])
  /\ Len(streams[m][s].chunks) = Len(LogicalBody(streams[m][s].info).chunks)
  /\ StreamEmitEnd(m, s)

PairEmitAttributes(m) ==
  /\ emitted[m].attrs = <<>>
  /\ ~emitted[m].ended
  /\ MessageEmitAttributes(m, logical.attributes)

PairEmitEnd(m) ==
  /\ Len(streams[m]) = Len(logical.bodies)
  /\ \A s \in 1..Len(streams[m]) : streams[m][s].ended
  /\ emitted[m].attrs # <<>>
  /\ MessageEmitEnd(m)

NextPair ==
  \E m \in PairMsgs :
    \/ PairEmitBody(m)
    \/ \E s \in 1..MaxBodies : PairEmitData(m, s)
    \/ \E s \in 1..MaxBodies : PairEmitStreamEnd(m, s)
    \/ PairEmitAttributes(m)
    \/ PairEmitEnd(m)

SpecPair == InitPair /\ [][NextPair]_vars

(***************************************************************************)
(* ImapSimple.search(searchCriteria, fetchOptions)                         *)
(***************************************************************************)
\* the uid lists the server search may return
UidLists == {[i \in 1..n |-> 100 + i] : n \in 0..MaxUids}
\* errors of the server search and of the fetch
ErrValues == {"searchError", "fetchError"}

SettleAnew(p, state, value) == [state |-> state, value |-> value]
\* resolve(value) and reject(err): a promise settles once, later calls are
\* ignored
Settle(p, state, value) ==
  IF p.state = "pending" THEN [state |-> state, value |-> value] ELSE p

\* messages[seqNo] = message
AssignMessageMutant(arr, seqNo, m) ==
  [arr EXCEPT ![CHOOSE i \in 0..MaxSeqNo :
                  arr[i] = Hole /\ \A j \in 0..(i - 1) : arr[j] # Hole] = m]
AssignMessage(arr, seqNo, m) == [arr EXCEPT ![seqNo] = m]

RECURSIVE Pared(_, _)
\* messages.filter((m) => !!m) from index i on: the entries that are set, in
\* index order
Pared(arr, i) ==
  IF i > MaxSeqNo THEN <<>>
  ELSE (IF arr[i] = Hole THEN <<>> ELSE <<arr[i]>>) \o Pared(arr, i + 1)

\* fetchCompleted(): resolve(pared)
fetchCompleted(arr) == Settle(searchPromise, "fulfilled", Pared(arr, 0))

\* search(): imap.search has been called and its callback is pending
InitSearch ==
  /\ variant \in Variants
  /\ exists = [m \in Msgs |-> FALSE]
  /\ listeners = [m \in Msgs |-> NoListeners]
  /\ attributes = [m \in Msgs |-> Undefined]
  /\ parts = [m \in Msgs |-> <<>>]
  /\ isHeader = [m \in Msgs |-> 0]
  /\ promise = [m \in Msgs |-> Pending]
  /\ streams = [m \in Msgs |-> <<>>]
  /\ emitted = [m \in Msgs |-> NoHistory]
  /\ logical = NoLogical
  /\ NoSearch
  /\ NoRest

\* the callback of imap.search runs with an error
ImapSearchError(err) ==
  /\ ~fetch.created
  /\ searchPromise.state = "pending"
  /\ searchPromise' = Settle(searchPromise, "rejected", err)
  /\ UNCHANGED <<fetch, uids, messagesRetrieved, messages, fetchSeqNo,
                 msgSeqNo, reaction, retrievedOrder>>
  /\ UNCHANGED <<msgVars, restVars>>

\* the callback of imap.search runs with the uids: resolve([]) for none,
\* otherwise imap.fetch and the three listeners on the fetch
ImapSearchResult(found) ==
  /\ ~fetch.created
  /\ searchPromise.state = "pending"
  /\ uids' = found
  /\ IF Len(found) = 0
     THEN /\ searchPromise' = Settle(searchPromise, "fulfilled", <<>>)
          /\ UNCHANGED fetch
     ELSE /\ fetch' = [fetch EXCEPT
               !.created = TRUE,
               !.listeners = [message |-> TRUE, error |-> TRUE, end |-> TRUE]]
          /\ UNCHANGED searchPromise
  /\ UNCHANGED <<messagesRetrieved, messages, fetchSeqNo, msgSeqNo, reaction,
                 retrievedOrder>>
  /\ UNCHANGED <<msgVars, restVars>>

\* the fetch emits 'message' with a new ImapMessage; fetchOnMessage calls
\* getMessage on it and registers the .then callback
FetchEmitMessage(m, seqNo) ==
  /\ fetch.created
  /\ ~fetch.emittedEnd
  /\ ~exists[m]
  /\ \A k \in 1..(m - 1) : exists[k]
  /\ \A k \in Msgs : fetchSeqNo[k] # seqNo
  /\ exists' = [exists EXCEPT ![m] = TRUE]
  /\ fetchSeqNo' = [fetchSeqNo EXCEPT ![m] = seqNo]
  /\ IF fetch.listeners.message
     THEN /\ GetMessageCalled(m)
          /\ reaction' = [reaction EXCEPT ![m] = "registered"]
     ELSE UNCHANGED <<listeners, attributes, parts, isHeader, promise, reaction>>
  /\ UNCHANGED <<variant, streams, emitted, logical>>
  /\ UNCHANGED <<searchPromise, fetch, uids, messagesRetrieved, messages,
                 msgSeqNo, retrievedOrder>>
  /\ UNCHANGED restVars

\* the .then callback of getMessage(m) runs once the promise is fulfilled
FetchOnMessageThen(m) ==
  /\ reaction[m] = "registered"
  /\ promise[m].state = "fulfilled"
  /\ reaction' = [reaction EXCEPT ![m] = "ran"]
  /\ msgSeqNo' = [msgSeqNo EXCEPT ![m] = fetchSeqNo[m]]
  /\ messages' = AssignMessage(messages, fetchSeqNo[m], m)
  /\ messagesRetrieved' = messagesRetrieved + 1
  /\ retrievedOrder' = Append(retrievedOrder, m)
  /\ IF messagesRetrieved' = Len(uids)
     THEN searchPromise' = fetchCompleted(messages')
     ELSE UNCHANGED searchPromise
  /\ UNCHANGED <<fetch, uids, fetchSeqNo>>
  /\ UNCHANGED <<msgVars, restVars>>

\* the fetch emits 'error'; fetchOnError (a once listener) removes the
\* message and end listeners and rejects
FetchEmitError(err) ==
  /\ fetch.created
  /\ ~fetch.emittedError
  /\ IF fetch.listeners.error
     THEN /\ fetch' = [fetch EXCEPT
               !.emittedError = TRUE,
               !.listeners = [message |-> FALSE, error |-> FALSE, end |-> FALSE]]
          /\ searchPromise' = Settle(searchPromise, "rejected", err)
     ELSE /\ fetch' = [fetch EXCEPT !.emittedError = TRUE]
          /\ UNCHANGED searchPromise
  /\ UNCHANGED <<uids, messagesRetrieved, messages, fetchSeqNo, msgSeqNo,
                 reaction, retrievedOrder>>
  /\ UNCHANGED <<msgVars, restVars>>

\* the fetch emits 'end'; fetchOnEnd (a once listener) removes the message
\* and error listeners
FetchEmitEnd ==
  /\ fetch.created
  /\ ~fetch.emittedEnd
  /\ IF fetch.listeners.end
     THEN fetch' = [fetch EXCEPT
            !.emittedEnd = TRUE,
            !.listeners = [message |-> FALSE, error |-> FALSE, end |-> FALSE]]
     ELSE fetch' = [fetch EXCEPT !.emittedEnd = TRUE]
  /\ UNCHANGED <<searchPromise, uids, messagesRetrieved, messages, fetchSeqNo,
                 msgSeqNo, reaction, retrievedOrder>>
  /\ UNCHANGED <<msgVars, restVars>>

\* a fetched message emits its one 'attributes' event: the uid of the message
FetchedEmitAttributes(m) ==
  /\ emitted[m].attrs = <<>>
  /\ MessageEmitAttributes(m, Attrs(100 + fetchSeqNo[m]))

\* the fetched messages carry attributes and no body (a search whose
\* fetchOptions name no bodies, as with the default of null)
NextSearch ==
  \/ ImapSearchError("searchError")
  \/ \E found \in UidLists : ImapSearchResult(found)
  \/ \E m \in Msgs, seqNo \in 1..MaxSeqNo : FetchEmitMessage(m, seqNo)
  \/ \E m \in Msgs : FetchOnMessageThen(m)
  \/ FetchEmitError("fetchError")
  \/ FetchEmitEnd
  \/ \E m \in Msgs : FetchedEmitAttributes(m)
  \/ \E m \in Msgs : MessageEmitEnd(m)

SpecSearch == InitSearch /\ [][NextSearch]_vars

\* search() under the scheduling of the event loop: a .then callback whose
\* promise is fulfilled is a queued microtask and does run
SpecSearchLive ==
  SpecSearch /\ WF_vars(\E m \in Msgs : FetchOnMessageThen(m))

(***************************************************************************)
(* Two messages of one search assembled concurrently: the fetch has been   *)
(* created for two uids and each message emits bodies, data, attributes    *)
(* and end, interleaved in every order.                                    *)
(***************************************************************************)
\* what the source emits for message m: body info, chunks and attributes that
\* name the message
\* the bodies the search asks for: fetchOptions = { bodies: ['HEADER'] }
FetchedBodies == <<"HEADER">>
OwnInfo(m) == [which |-> FetchedBodies[1], size |-> m]
OwnChunk(m) == <<64 + m>>

InitConcurrent ==
  /\ variant = "helpers/getMessage.ts"
  /\ exists = [m \in Msgs |-> FALSE]
  /\ listeners = [m \in Msgs |-> NoListeners]
  /\ attributes = [m \in Msgs |-> Undefined]
  /\ parts = [m \in Msgs |-> <<>>]
  /\ isHeader = [m \in Msgs |-> 0]
  /\ promise = [m \in Msgs |-> Pending]
  /\ streams = [m \in Msgs |-> <<>>]
  /\ emitted = [m \in Msgs |-> NoHistory]
  /\ logical = NoLogical
  /\ searchPromise = [state |-> "pending", value |-> <<>>]
  /\ fetch = [created |-> TRUE,
              listeners |-> [message |-> TRUE, error |-> TRUE, end |-> TRUE],
              emittedError |-> FALSE, emittedEnd |-> FALSE]
  /\ uids = <<101, 102>>
  /\ messagesRetrieved = 0
  /\ messages = [i \in 0..MaxSeqNo |-> Hole]
  /\ fetchSeqNo = [m \in Msgs |-> 0]
  /\ msgSeqNo = [m \in Msgs |-> 0]
  /\ reaction = [m \in Msgs |-> "none"]
  /\ retrievedOrder = <<>>
  /\ NoRest

NextConcurrent ==
  \/ \E m \in PairMsgs : FetchEmitMessage(m, m)
  \/ \E m \in PairMsgs : FetchOnMessageThen(m)
  \/ FetchEmitEnd
  \/ \E m \in PairMsgs : MessageEmitBody(m, OwnInfo(m), Len(FetchedBodies))
  \/ \E m \in PairMsgs, s \in 1..Len(FetchedBodies) :
       StreamEmitData(m, s, OwnChunk(m))
  \/ \E m \in PairMsgs, s \in 1..Len(FetchedBodies) : StreamEmitEnd(m, s)
  \/ \E m \in PairMsgs : FetchedEmitAttributes(m)
  \/ \E m \in PairMsgs : MessageEmitEnd(m)

SpecConcurrent == InitConcurrent /\ [][NextConcurrent]_vars

(***************************************************************************)
(* ImapSimple.getPartData(message, part): the decoding of one part.        *)
(* Strings are sequences of character codes.                               *)
(***************************************************************************)
MaxDataLen == 5    \* length of the raw bodies enumerated for the decoder

Lower == "abcdefghijklmnopqrstuvwxyz"
Upper == "ABCDEFGHIJKLMNOPQRSTUVWXYZ"
\* the upper-case form of one character
UpperChar(c) ==
  IF \E i \in 1..Len(Lower) : SubSeq(Lower, i, i) = c
  THEN LET i == CHOOSE k \in 1..Len(Lower) : SubSeq(Lower, k, k) = c
       IN SubSeq(Upper, i, i)
  ELSE c
RECURSIVE toUpperCase(_)
\* String.prototype.toUpperCase
toUpperCaseMutant(str) == str
toUpperCase(str) ==
  IF Len(str) = 0 THEN ""
  ELSE UpperChar(SubSeq(str, 1, 1)) \o toUpperCase(SubSeq(str, 2, Len(str)))

\* part.params?.charset
ParamsCharset(part) == IF part.params.present THEN part.params.charset ELSE ""

\* the declared encodings and params of the parts that are decoded
EncodingValues ==
  {"BASE64", "base64", "Base64", "QUOTED-PRINTABLE", "quoted-printable",
   "Quoted-Printable", "7BIT", "7bit", "8BIT", "8bit", "BINARY", "Binary",
   "UUENCODE", "uuencode", "X-CUSTOM", "x-custom", "BASE-64", ""}
CharsetValues == {"", "utf-8", "UTF-8", "Utf-8", "latin1", "x-unknown"}
ParamValues == {NoParams} \cup {Params(c) : c \in CharsetValues}
PartValues ==
  {[partID |-> "1", encoding |-> e, params |-> p] :
     e \in EncodingValues, p \in ParamValues}

\* the raw bodies that are decoded: every text of "A" and "\n" up to
\* MaxDataLen, and "caf=C3=A9", "=C3", "é", "a=\nb", "a \n", "b\nM\nN\n`\ne\n"
DataValues ==
  UNION {[1..n -> {65, 10}] : n \in 0..MaxDataLen}
    \cup {<<99, 97, 102, 61, 67, 51, 61, 65, 57>>, <<61, 67, 51>>, <<233>>,
          <<97, 61, 10, 98>>, <<97, 32, 10>>,
          <<98, 10, 77, 10, 78, 10, 96, 10, 101, 10>>}

\* the value of a hexadecimal digit, -1 for any other character
HexValue(c) ==
  IF c >= 48 /\ c <= 57 THEN c - 48
  ELSE IF c >= 65 /\ c <= 70 THEN c - 55
  ELSE IF c >= 97 /\ c <= 102 THEN c - 87
  ELSE -1

RECURSIVE QpDecode(_)
\* qp.decode (quoted-printable): one space or tab at the end of a line is
\* dropped, "=" before a line break is a soft break, "=XX" is the byte XX
QpDecode(text) ==
  IF text = <<>> THEN <<>>
  ELSE LET c == Head(text)
           n == Len(text) IN
       IF (c = 32 \/ c = 9) /\ (n = 1 \/ text[2] = 10)
       THEN QpDecode(Tail(text))
       ELSE IF c = 61 /\ n >= 2 /\ text[2] = 10
       THEN QpDecode(SubSeq(text, 3, n))
       ELSE IF c = 61 /\ n >= 3 /\ text[2] = 13 /\ text[3] = 10
       THEN QpDecode(SubSeq(text, 4, n))
       ELSE IF c = 61 /\ n >= 3 /\ HexValue(text[2]) >= 0 /\ HexValue(text[3]) >= 0
       THEN <<16 * HexValue(text[2]) + HexValue(text[3])>>
              \o QpDecode(SubSeq(text, 4, n))
       ELSE <<c>> \o QpDecode(Tail(text))

\* byteArray[index] & 0xFF
ByteAt(bytes, i) == bytes[i] % 256
\* (continuationByte & 0xC0) == 0x80, and its six payload bits
IsContinuation(bytes, i) ==
  i <= Len(bytes) /\ ByteAt(bytes, i) >= 128 /\ ByteAt(bytes, i) <= 191
Continuation(bytes, i) == ByteAt(bytes, i) - 128

RECURSIVE Utf8Decode(_)
\* utf8.decode of a byte string: [ok, text]; it throws (ok = FALSE) on a
\* byte that starts no sequence and on a missing or wrong continuation byte
\* (sequences of one to three bytes; longer ones are no input of the model)
Utf8Decode(bytes) ==
  IF bytes = <<>> THEN [ok |-> TRUE, text |-> <<>>]
  ELSE LET b == Head(bytes) % 256
           n == Len(bytes)
           Then(cp, k) ==
             LET rest == Utf8Decode(SubSeq(bytes, k + 1, n)) IN
             [ok |-> rest.ok, text |-> <<cp>> \o rest.text]
           Throw == [ok |-> FALSE, text |-> <<>>] IN
       IF b < 128 THEN Then(b, 1)
       ELSE IF b >= 192 /\ b <= 223
       THEN IF IsContinuation(bytes, 2)
                 /\ (b - 192) * 64 + Continuation(bytes, 2) >= 128
            THEN Then((b - 192) * 64 + Continuation(bytes, 2), 2)
            ELSE Throw
       ELSE IF b >= 224 /\ b <= 239
       THEN IF IsContinuation(bytes, 2) /\ IsContinuation(bytes, 3)
                 /\ (b - 224) * 4096 + Continuation(bytes, 2) * 64
                      + Continuation(bytes, 3) >= 2048
            THEN Then((b - 224) * 4096 + Continuation(bytes, 2) * 64
                        + Continuation(bytes, 3), 3)
            ELSE Throw
       ELSE Throw

RECURSIVE Utf8Bytes(_)
\* Buffer.from(string): the UTF-8 bytes of the string
Utf8Bytes(text) ==
  IF text = <<>> THEN <<>>
  ELSE LET c == Head(text) IN
       (IF c < 128 THEN <<c>>
        ELSE IF c < 2048 THEN <<192 + (c \div 64), 128 + (c % 64)>>
        ELSE <<224 + (c \div 4096), 128 + ((c \div 64) % 64), 128 + (c % 64)>>)
         \o Utf8Bytes(Tail(text))

\* Buffer.from(data).toString('ascii'): each byte with its high bit cleared
ToAscii(text) ==
  LET bytes == Utf8Bytes(text) IN [i \in 1..Len(bytes) |-> bytes[i] % 128]

RECURSIVE Split(_, _)
\* String.prototype.split(separator) for a one-character separator
Split(text, sep) ==
  IF \E i \in 1..Len(text) : text[i] = sep
  THEN LET i == CHOOSE k \in 1..Len(text) :
                  text[k] = sep /\ \A j \in 1..(k - 1) : text[j] # sep
       IN <<SubSeq(text, 1, i - 1)>> \o Split(SubSeq(text, i + 1, Len(text)), sep)
  ELSE <<text>>

\* the elements Array.prototype.splice(start, deleteCount) removes and
\* returns, for start >= 0: both arguments are clamped to the array
SpliceMutant(arr, start, deleteCount) ==
  SubSeq(arr, start + 1, Len(arr) - 1)
Splice(arr, start, deleteCount) ==
  LET from == IF start > Len(arr) THEN Len(arr) ELSE start
      room == Len(arr) - from
      count == IF deleteCount < 0 THEN 0
               ELSE IF deleteCount > room THEN room ELSE deleteCount
  IN SubSeq(arr, from + 1, from + count)

RECURSIVE Join(_)
\* Array.prototype.join('')
Join(arr) == IF arr = <<>> THEN <<>> ELSE Head(arr) \o Join(Tail(arr))

\* the text getPartData hands to uuencode.decode
UuencodeMerged(data) ==
  LET lines == Split(data, 10) IN Join(Splice(lines, 1, Len(lines) - 4))

\* the encodings iconv-lite knows, among CharsetValues; iconvlite.decode
\* throws "Encoding not recognized" for any other
IconvKnows(charset) == charset \in {"utf-8", "UTF-8", "Utf-8", "latin1"}

\* result.parts.length !== 1 (negated)
PartCountOkMutant(n) == n >= 1
PartCountOk(n) == n = 1

\* part.params?.charset && part.params.charset.toUpperCase() === 'UTF-8'
IsUtf8CharsetMutant(part) == ParamsCharset(part) # ""
IsUtf8Charset(part) ==
  ParamsCharset(part) # "" /\ toUpperCase(ParamsCharset(part)) = "UTF-8"

\* the QUOTED-PRINTABLE branch
DecodeQuotedPrintable(data, part) ==
  IF IsUtf8Charset(part)
  THEN LET u == Utf8Decode(QpDecode(data)) IN
       IF u.ok
       THEN Resolved("QUOTED-PRINTABLE", Value(<<"qp.decode", "utf8.decode">>, u.text, ""))
       ELSE Thrown("QUOTED-PRINTABLE")
  ELSE Resolved("QUOTED-PRINTABLE", Value(<<"qp.decode">>, QpDecode(data), ""))

\* the 8BIT / BINARY branch
DecodeBinary(data, part) ==
  LET charset == IF ParamsCharset(part) # "" THEN ParamsCharset(part) ELSE "utf-8" IN
  IF IconvKnows(charset)
  THEN Resolved("8BIT/BINARY", Value(<<"iconvlite.decode">>, data, charset))
  ELSE Thrown("8BIT/BINARY")

\* reject(new Error('Unknown encoding ' + part.encoding))
UnknownEncodingMutant(data, part) == Resolved("none", Value(<<>>, data, ""))
UnknownEncoding(data, part) == Rejected(Err("Unknown encoding ", part.encoding, 0))

\* the chain of comparisons on the upper-cased encoding
DecodePart(data, part) ==
  LET encoding == toUpperCase(part.encoding) IN
  IF encoding = "BASE64"
  THEN Resolved("BASE64", Value(<<"Buffer.from base64">>, data, ""))
  ELSE IF encoding = "QUOTED-PRINTABLE" THEN DecodeQuotedPrintable(data, part)
  ELSE IF encoding = "7BIT"
  THEN Resolved("7BIT", Value(<<"toString ascii">>, ToAscii(data), ""))
  ELSE IF encoding = "8BIT" \/ encoding = "BINARY" THEN DecodeBinary(data, part)
  ELSE IF encoding = "UUENCODE"
  THEN Resolved("UUENCODE", Value(<<"uuencode.decode">>, UuencodeMerged(data), ""))
  ELSE UnknownEncoding(data, part)

\* the .then callback of getPartData on the assembled result
PartCallback(resultParts, part) ==
  IF ~PartCountOk(Len(resultParts))
  THEN Rejected(Err("Got parts, should get 1", "", Len(resultParts)))
  ELSE DecodePart(resultParts[1].body.text, part)

\* resolve(value), reject(error) or neither, as the outcome of a callback says
SettlePartMutant(p, outcome) ==
  IF outcome.kind = "resolve"
  THEN [state |-> "fulfilled", value |-> outcome.value, error |-> NoErr]
  ELSE IF outcome.kind = "reject"
  THEN [state |-> "rejected", value |-> NoValue, error |-> outcome.error]
  ELSE p
SettlePart(p, outcome) ==
  IF p.state # "pending" \/ outcome.kind = "throw" THEN p
  ELSE IF outcome.kind = "resolve"
  THEN [state |-> "fulfilled", value |-> outcome.value, error |-> NoErr]
  ELSE [state |-> "rejected", value |-> NoValue, error |-> outcome.error]

\* the body getPartData asks for: bodies: [part.partID]
PartInfo(p) == [which |-> p.partID, size |-> 0]

\* getPartData(message, part): imap.fetch is called and the three once
\* listeners are registered
GetPartDataCalled(p) ==
  /\ fetchCalls = 0
  /\ calledPart' = p
  /\ fetchCalls' = fetchCalls + 1
  /\ partFetch' = [created |-> TRUE,
                   listeners |-> [message |-> TRUE, error |-> TRUE, end |-> TRUE],
                   emittedError |-> FALSE, emittedEnd |-> FALSE]
  /\ UNCHANGED <<partPromise, partMessage, partRun>>
  /\ UNCHANGED <<msgVars, searchVars, boxVars, connVars, structVars, simpleVars>>

\* the fetch emits 'message'; fetchOnMessage (a once listener) calls
\* getMessage on it and registers the .then callback
PartFetchEmitMessage(m) ==
  /\ partFetch.created
  /\ ~partFetch.emittedEnd
  /\ ~exists[m]
  /\ \A k \in 1..(m - 1) : exists[k]
  /\ exists' = [exists EXCEPT ![m] = TRUE]
  /\ IF partFetch.listeners.message
     THEN /\ GetMessageCalled(m)
          /\ partMessage' = m
          /\ partFetch' = [partFetch EXCEPT !.listeners.message = FALSE]
     ELSE UNCHANGED <<listeners, attributes, parts, isHeader, promise,
                      partMessage, partFetch>>
  /\ UNCHANGED <<variant, streams, emitted, logical>>
  /\ UNCHANGED <<calledPart, partPromise, partRun, fetchCalls>>
  /\ UNCHANGED <<searchVars, boxVars, connVars, structVars, simpleVars>>

\* the .then callback of getMessage(msg) runs once that promise is fulfilled
PartOnMessageThen ==
  /\ partMessage # 0
  /\ ~partRun.ran
  /\ promise[partMessage].state = "fulfilled"
  /\ LET outcome == PartCallback(parts[partMessage], calledPart) IN
       /\ partRun' = [ran |-> TRUE, count |-> Len(parts[partMessage]),
                      outcome |-> outcome]
       /\ partPromise' = SettlePart(partPromise, outcome)
  /\ UNCHANGED <<calledPart, partFetch, partMessage, fetchCalls>>
  /\ UNCHANGED <<msgVars, searchVars, boxVars, connVars, structVars, simpleVars>>

\* the fetch emits 'error'; fetchOnError (a once listener) removes the
\* message and end listeners and rejects with the error
PartFetchEmitError(err) ==
  /\ partFetch.created
  /\ ~partFetch.emittedError
  /\ IF partFetch.listeners.error
     THEN /\ partFetch' = [partFetch EXCEPT
               !.emittedError = TRUE,
               !.listeners = [message |-> FALSE, error |-> FALSE, end |-> FALSE]]
          /\ partPromise' = SettlePart(partPromise, Rejected(Err(err, "", 0)))
     ELSE /\ partFetch' = [partFetch EXCEPT !.emittedError = TRUE]
          /\ UNCHANGED partPromise
  /\ UNCHANGED <<calledPart, partMessage, partRun, fetchCalls>>
  /\ UNCHANGED <<msgVars, searchVars, boxVars, connVars, structVars, simpleVars>>

\* the fetch emits 'end'; fetchOnEnd (a once listener) removes the message
\* and error listeners
PartFetchEmitEnd ==
  /\ partFetch.created
  /\ ~partFetch.emittedEnd
  /\ IF partFetch.listeners.end
     THEN partFetch' = [partFetch EXCEPT
            !.emittedEnd = TRUE,
            !.listeners = [message |-> FALSE, error |-> FALSE, end |-> FALSE]]
     ELSE partFetch' = [partFetch EXCEPT !.emittedEnd = TRUE]
  /\ UNCHANGED <<calledPart, partPromise, partMessage, partRun, fetchCalls>>
  /\ UNCHANGED <<msgVars, searchVars, boxVars, connVars, structVars, simpleVars>>

(***************************************************************************)
(* The decoding alone: getMessage has assembled one raw part, and the      *)
(* callback of getPartData runs on it, for every part descriptor and raw   *)
(* body, while the fetch ends or fails.                                    *)
(***************************************************************************)
InitDecode ==
  /\ variant \in Variants
  /\ calledPart \in PartValues
  /\ \E data \in DataValues :
       /\ streams = [m \in Msgs |->
            IF m = 1
            THEN <<[info |-> PartInfo(calledPart), body |-> data,
                    dataListener |-> FALSE, endListener |-> FALSE,
                    ended |-> TRUE, chunks |-> <<Utf8Bytes(data)>>,
                    late |-> FALSE]>>
            ELSE <<>>]
       /\ parts = [m \in Msgs |->
            IF m = 1
            THEN <<[which |-> calledPart.partID, size |-> 0, body |-> RawBody(data),
                    stream |-> 1]>>
            ELSE <<>>]
  /\ exists = [m \in Msgs |-> m = 1]
  /\ listeners = [m \in Msgs |-> NoListeners]
  /\ attributes = [m \in Msgs |-> IF m = 1 THEN Attrs(1) ELSE Undefined]
  /\ isHeader = [m \in Msgs |-> 0]
  /\ promise = [m \in Msgs |->
       IF m = 1 THEN [state |-> "fulfilled", attributes |-> Attrs(1)] ELSE Pending]
  /\ emitted = [m \in Msgs |->
       IF m = 1
       THEN [attrs |-> <<[payload |-> Attrs(1), late |-> FALSE]>>,
             ended |-> TRUE, endOrder |-> <<1>>]
       ELSE NoHistory]
  /\ logical = NoLogical
  /\ NoSearch
  /\ partPromise = PartPending
  /\ partFetch = [created |-> TRUE,
                  listeners |-> [message |-> FALSE, error |-> TRUE, end |-> TRUE],
                  emittedError |-> FALSE, emittedEnd |-> FALSE]
  /\ partMessage = 1
  /\ partRun = NotRun
  /\ fetchCalls = 1
  /\ NoBox
  /\ NoConnect
  /\ NoStruct
  /\ NoSimple

NextDecode ==
  \/ PartOnMessageThen
  \/ PartFetchEmitError("fetchError")
  \/ PartFetchEmitEnd

SpecDecode == InitDecode /\ [][NextDecode]_vars

(***************************************************************************)
(* One getPartData call with the events of its fetch and of the fetched    *)
(* message in every order.                                                 *)
(***************************************************************************)
\* the parts getPartData is called with
PartSamples ==
  {[partID |-> "1", encoding |-> "base64", params |-> NoParams],
   [partID |-> "1", encoding |-> "8bit", params |-> Params("x-unknown")],
   [partID |-> "1", encoding |-> "x-custom", params |-> NoParams]}
\* the chunk a body stream of the part delivers: "A\nA"
PartChunk == <<65, 10, 65>>

InitPartData ==
  /\ variant = "helpers/getMessage.ts"
  /\ exists = [m \in Msgs |-> FALSE]
  /\ listeners = [m \in Msgs |-> NoListeners]
  /\ attributes = [m \in Msgs |-> Undefined]
  /\ parts = [m \in Msgs |-> <<>>]
  /\ isHeader = [m \in Msgs |-> 0]
  /\ promise = [m \in Msgs |-> Pending]
  /\ streams = [m \in Msgs |-> <<>>]
  /\ emitted = [m \in Msgs |-> NoHistory]
  /\ logical = NoLogical
  /\ NoSearch
  /\ NoRest

NextPartData ==
  \/ \E p \in PartSamples : GetPartDataCalled(p)
  \/ \E m \in Msgs : PartFetchEmitMessage(m)
  \/ PartOnMessageThen
  \/ PartFetchEmitError("fetchError")
  \/ PartFetchEmitEnd
  \/ partMessage # 0 /\ MessageEmitBody(partMessage, PartInfo(calledPart), MaxBodies)
  \/ \E s \in 1..MaxBodies :
       partMessage # 0 /\ StreamEmitData(partMessage, s, PartChunk)
  \/ \E s \in 1..MaxBodies : partMessage # 0 /\ StreamEmitEnd(partMessage, s)
  \/ partMessage # 0 /\ MessageEmitEnd(partMessage)

SpecPartData == InitPartData /\ [][NextPartData]_vars

(***************************************************************************)
(* ImapSimple.deleteMessage(uid) on an open mailbox. A message is          *)
(* "present", "flagged" (present with the \Deleted flag) or "absent".      *)
(***************************************************************************)
\* the uid arguments: a uid or a non-empty array of uids
UidArgs == (SUBSET BoxUids) \ {{}}

\* the server's STORE +FLAGS (\Deleted) on the messages of `us`
StoreDeleted(box, us) ==
  [u \in BoxUids |-> IF u \in us /\ box[u] = "present" THEN "flagged" ELSE box[u]]

\* the server's EXPUNGE: imap.expunge(callback) names no uids, so every
\* message that has the \Deleted flag is removed
Expunge(box) ==
  [u \in BoxUids |-> IF box[u] = "flagged" THEN "absent" ELSE box[u]]

\* a mailbox has been opened; nothing is flagged
InitDelete ==
  /\ variant = "helpers/getMessage.ts"
  /\ exists = [m \in Msgs |-> FALSE]
  /\ listeners = [m \in Msgs |-> NoListeners]
  /\ attributes = [m \in Msgs |-> Undefined]
  /\ parts = [m \in Msgs |-> <<>>]
  /\ isHeader = [m \in Msgs |-> 0]
  /\ promise = [m \in Msgs |-> Pending]
  /\ streams = [m \in Msgs |-> <<>>]
  /\ emitted = [m \in Msgs |-> NoHistory]
  /\ logical = NoLogical
  /\ NoSearch
  /\ NoPartData
  /\ NoConnect
  /\ NoStruct
  /\ NoSimple
  /\ mailbox \in [BoxUids -> {"absent", "present"}]
  /\ mailboxBefore = [u \in BoxUids |-> "absent"]
  /\ deleteUids = {}
  /\ deleteStage = "idle"
  /\ deletePromise = [state |-> "pending", value |-> ""]

\* addFlags(uid, '\\Deleted') of ImapSimple, called and resolved before
\* deleteMessage is called
AddFlagsDeleted(us) ==
  /\ deleteStage = "idle"
  /\ mailbox' = StoreDeleted(mailbox, us)
  /\ mailbox' # mailbox
  /\ UNCHANGED <<mailboxBefore, deleteUids, deleteStage, deletePromise>>
  /\ UNCHANGED <<msgVars, searchVars, partVars, connVars, structVars, simpleVars>>

\* deleteMessage(uid): imap.addFlags(uid, '\\Deleted', callback) is called
DeleteMessageCalled(us) ==
  /\ deleteStage = "idle"
  /\ deleteStage' = "addFlags"
  /\ deleteUids' = us
  /\ mailboxBefore' = mailbox
  /\ UNCHANGED <<mailbox, deletePromise>>
  /\ UNCHANGED <<msgVars, searchVars, partVars, connVars, structVars, simpleVars>>

\* the callback of imap.addFlags runs: with an error it rejects, else the
\* flags are stored and imap.expunge(callback) is called
DeleteAddFlagsCallback(err) ==
  /\ deleteStage = "addFlags"
  /\ IF err # ""
     THEN /\ deletePromise' = Settle(deletePromise, "rejected", err)
          /\ deleteStage' = "done"
          /\ UNCHANGED mailbox
     ELSE /\ mailbox' = StoreDeleted(mailbox, deleteUids)
          /\ deleteStage' = "expunge"
          /\ UNCHANGED deletePromise
  /\ UNCHANGED <<mailboxBefore, deleteUids>>
  /\ UNCHANGED <<msgVars, searchVars, partVars, connVars, structVars, simpleVars>>

\* the callback of imap.expunge runs: with an error it rejects, else the
\* mailbox has been expunged and it resolves
DeleteExpungeCallback(err) ==
  /\ deleteStage = "expunge"
  /\ deleteStage' = "done"
  /\ IF err # ""
     THEN /\ deletePromise' = Settle(deletePromise, "rejected", err)
          /\ UNCHANGED mailbox
     ELSE /\ mailbox' = Expunge(mailbox)
          /\ deletePromise' = Settle(deletePromise, "fulfilled", "undefined")
  /\ UNCHANGED <<mailboxBefore, deleteUids>>
  /\ UNCHANGED <<msgVars, searchVars, partVars, connVars, structVars, simpleVars>>

NextDelete ==
  \/ \E us \in UidArgs : AddFlagsDeleted(us)
  \/ \E us \in UidArgs : DeleteMessageCalled(us)
  \/ \E err \in {"", "imapError"} : DeleteAddFlagsCallback(err)
  \/ \E err \in {"", "imapError"} : DeleteExpungeCallback(err)

SpecDelete == InitDelete /\ [][NextDelete]_vars

(***************************************************************************)
(* connect(options) of index.ts and the events of the connection.          *)
(***************************************************************************)
MaxEvents == 2     \* 'mail', 'expunge' and 'update' events, of each kind

\* the own properties the options may have besides imap
OptionKeys == {"onMail", "onExpunge", "onUpdate", "onEUpdate"}

\* options.hasOwnProperty(...): the test that guards imap.on(event, ...)
RegistersOn(opts, ev) ==
  IF ev = "mail" THEN "onMail" \in opts
  ELSE IF ev = "expunge" THEN "onExpunge" \in opts
  ELSE "onEUpdate" \in opts

\* imap.on(event, undefined) throws a TypeError: the guard passes and the
\* option it registers is no own property
RegistrationThrows(opts) == RegistersOn(opts, "update") /\ "onUpdate" \notin opts

\* the calls the executor of connect makes on the connection, in order
ConnectCalls(opts) ==
  <<"once ready", "once error", "once close", "once end">>
    \o (IF RegistersOn(opts, "mail") THEN <<"on mail">> ELSE <<>>)
    \o (IF RegistersOn(opts, "expunge") THEN <<"on expunge">> ELSE <<>>)
    \o (IF RegistrationThrows(opts) THEN <<>>
        ELSE (IF RegistersOn(opts, "update") THEN <<"on update">> ELSE <<>>)
               \o <<"connect">>)

\* cleanUp(): the four once listeners are removed
cleanUpMutant(l) == l
cleanUp(l) ==
  [l EXCEPT !.ready = FALSE, !.error = FALSE, !.close = FALSE, !.end = FALSE]

\* options.imap.authTimeout: not given, or given as 5000 or as 0
ConfigValues ==
  {[given |-> FALSE, authTimeout |-> 0], [given |-> TRUE, authTimeout |-> 5000],
   [given |-> TRUE, authTimeout |-> 0]}
\* the errors the connection emits
ConnErrors ==
  {ConnValue("Timed out while authenticating with server", "timeout-auth", 0),
   ConnValue("Timed out while connecting to server", "timeout", 0),
   ConnValue("ECONNREFUSED", "socket", 0)}

DefaultAuthTimeout == 2000
\* const authTimeout = options.imap.authTimeout ?? 2000
AuthTimeout(config) ==
  IF config.given THEN config.authTimeout ELSE DefaultAuthTimeout

\* imapOnError: the error reject is called with
imapOnErrorMutant(err, authTimeout) == err
imapOnError(err, authTimeout) ==
  IF err.source = "timeout-auth"
  THEN ConnValue("ConnectionTimeoutError", "", authTimeout)
  ELSE err

InitConnect ==
  /\ variant = "helpers/getMessage.ts"
  /\ exists = [m \in Msgs |-> FALSE]
  /\ listeners = [m \in Msgs |-> NoListeners]
  /\ attributes = [m \in Msgs |-> Undefined]
  /\ parts = [m \in Msgs |-> <<>>]
  /\ isHeader = [m \in Msgs |-> 0]
  /\ promise = [m \in Msgs |-> Pending]
  /\ streams = [m \in Msgs |-> <<>>]
  /\ emitted = [m \in Msgs |-> NoHistory]
  /\ logical = NoLogical
  /\ NoSearch
  /\ NoPartData
  /\ NoBox
  /\ NoConnect
  /\ NoStruct
  /\ NoSimple

\* connect(options): the executor registers the listeners and calls
\* imap.connect(); an exception in the executor rejects the promise
ConnectCalled(opts, config) ==
  /\ connLog = <<>>
  /\ options' = opts
  /\ imapConfig' = [given |-> config.given, authTimeout |-> config.authTimeout,
                    effective |-> AuthTimeout(config)]
  /\ connLog' = ConnectCalls(opts)
  /\ connListeners' =
       [ready |-> TRUE, error |-> TRUE, close |-> TRUE, end |-> TRUE,
        mail |-> RegistersOn(opts, "mail"),
        expunge |-> RegistersOn(opts, "expunge"),
        update |-> RegistersOn(opts, "update") /\ ~RegistrationThrows(opts)]
  /\ connectPromise' =
       IF RegistrationThrows(opts)
       THEN Settle(connectPromise, "rejected", ConnValue("TypeError", "", 0))
       ELSE connectPromise
  /\ UNCHANGED <<connHistory, emittedCount, invoked, handlerRuns>>
  /\ UNCHANGED <<msgVars, searchVars, partVars, boxVars, structVars, simpleVars>>

\* imap.connect() has been called
Connecting == connLog # <<>> /\ connLog[Len(connLog)] = "connect"

\* what connect settles its promise with when the connection emits ev
ConnectOutcome(ev, err) ==
  IF ev = "ready"
  THEN [state |-> "fulfilled", value |-> ConnValue("ImapSimple", "", 0)]
  ELSE IF ev = "error"
  THEN [state |-> "rejected", value |-> imapOnError(err, imapConfig.effective)]
  ELSE IF ev = "end"
  THEN [state |-> "rejected", value |-> ConnValue("ConnectionEndedError", "", 0)]
  ELSE [state |-> "rejected", value |-> ConnValue("ConnectionClosedError", "", 0)]

\* the connection emits 'ready', 'error', 'close' or 'end'; the once
\* listener of connect, when still registered, cleans up and settles
ConnEmit(ev, err) ==
  /\ Connecting
  /\ ~connHistory[ev]
  /\ connHistory' = [connHistory EXCEPT
       ![ev] = TRUE,
       !.first = IF @ = "" THEN ev ELSE @,
       !.err = IF ev = "error" THEN err ELSE @]
  /\ IF connListeners[ev]
     THEN /\ connListeners' = cleanUp(connListeners)
          /\ connectPromise' = Settle(connectPromise, ConnectOutcome(ev, err).state,
                                      ConnectOutcome(ev, err).value)
          /\ handlerRuns' = handlerRuns + 1
     ELSE UNCHANGED <<connListeners, connectPromise, handlerRuns>>
  /\ UNCHANGED <<options, connLog, emittedCount, invoked, imapConfig>>
  /\ UNCHANGED <<msgVars, searchVars, partVars, boxVars, structVars, simpleVars>>

\* the connection emits 'mail', 'expunge' or 'update'; a callback registered
\* with imap.on is invoked
ConnEmitServerEvent(ev) ==
  /\ Connecting
  /\ connHistory.ready
  /\ ~connHistory.close
  /\ ~connHistory.end
  /\ emittedCount[ev] < MaxEvents
  /\ emittedCount' = [emittedCount EXCEPT ![ev] = @ + 1]
  /\ invoked' = [invoked EXCEPT ![ev] = IF connListeners[ev] THEN @ + 1 ELSE @]
  /\ UNCHANGED <<options, connListeners, connLog, connectPromise, connHistory,
                 imapConfig, handlerRuns>>
  /\ UNCHANGED <<msgVars, searchVars, partVars, boxVars, structVars, simpleVars>>

NextConnect ==
  \/ \E opts \in SUBSET OptionKeys, config \in ConfigValues :
       ConnectCalled(opts, config)
  \/ \E ev \in {"ready", "error", "close", "end"}, err \in ConnErrors :
       ConnEmit(ev, err)
  \/ \E ev \in ServerEvents : ConnEmitServerEvent(ev)

SpecConnect == InitConnect /\ [][NextConnect]_vars

(***************************************************************************)
(* getParts(struct, parts): the flattening of message.attributes.struct.   *)
(* A node of a struct is an array of nodes or a part description.          *)
(***************************************************************************)
MaxStructLen == 2  \* length of the arrays of the structs enumerated

\* a part description (partID "" stands for a missing partID) and an array
Leaf(partID, type) ==
  [isArray |-> FALSE, partID |-> partID, type |-> type, items |-> <<>>]
Arr(items) == [isArray |-> TRUE, partID |-> "", type |-> "", items |-> items]

\* the structs getParts is called with: arrays up to MaxStructLen of part
\* descriptions and of arrays of part descriptions, and one deeper struct
LeafValues == {Leaf("", "alternative"), Leaf("1", "text"), Leaf("2", "image")}
StructValues ==
  LET SeqsUpTo(S) == UNION {[1..k -> S] : k \in 0..MaxStructLen} IN
  SeqsUpTo(LeafValues \cup {Arr(a) : a \in SeqsUpTo(LeafValues)})
    \cup {<<Leaf("", "mixed"),
            Arr(<<Leaf("1", "text")>>),
            Arr(<<Leaf("", "related"),
                  Arr(<<Leaf("2.1", "html")>>),
                  Arr(<<Leaf("2.2", "image")>>)>>),
            Leaf("3", "pdf")>>}
\* the parts argument: not given, or a list that may hold an entry
PartsArgValues ==
  {[given |-> FALSE, list |-> <<>>], [given |-> TRUE, list |-> <<>>],
   [given |-> TRUE, list |-> <<Leaf("0", "earlier")>>]}

\* struct[i].partID is truthy
HasPartIDMutant(node) == TRUE
HasPartID(node) == node.partID # ""

RECURSIVE getParts(_, _)
\* the loop of getParts over the nodes of st, pushing to ps
getParts(st, ps) ==
  IF st = <<>> THEN ps
  ELSE LET node == Head(st) IN
       getParts(Tail(st),
                IF node.isArray THEN getParts(node.items, ps)
                ELSE IF HasPartID(node) THEN Append(ps, node)
                ELSE ps)

InitParts ==
  /\ variant = "helpers/getMessage.ts"
  /\ exists = [m \in Msgs |-> FALSE]
  /\ listeners = [m \in Msgs |-> NoListeners]
  /\ attributes = [m \in Msgs |-> Undefined]
  /\ parts = [m \in Msgs |-> <<>>]
  /\ isHeader = [m \in Msgs |-> 0]
  /\ promise = [m \in Msgs |-> Pending]
  /\ streams = [m \in Msgs |-> <<>>]
  /\ emitted = [m \in Msgs |-> NoHistory]
  /\ logical = NoLogical
  /\ NoSearch
  /\ NoPartData
  /\ NoBox
  /\ NoConnect
  /\ NoSimple
  /\ struct \in StructValues
  /\ partsArg \in PartsArgValues
  /\ partsResult = [done |-> FALSE, list |-> <<>>]

\* getParts(struct, parts) is called and returns; parts defaults to []
GetPartsCalled ==
  /\ ~partsResult.done
  /\ partsResult' =
       [done |-> TRUE,
        list |-> getParts(struct, IF partsArg.given THEN partsArg.list ELSE <<>>)]
  /\ UNCHANGED <<struct, partsArg>>
  /\ UNCHANGED <<msgVars, searchVars, partVars, boxVars, connVars, simpleVars>>

NextParts == GetPartsCalled

SpecParts == InitParts /\ [][NextParts]_vars

(***************************************************************************)
(* The ImapSimple object: the events of the connection it passes on, its   *)
(* error handler and end(). `history` lists, in order, what the connection *)
(* emitted ("imap"), what ImapSimple emitted ("simple"), the calls of      *)
(* end() ("call") and the exceptions of the error handler ("throw").       *)
(***************************************************************************)
MaxSteps == 4      \* events of the connection and calls of end() in one run

\* the events passed through 1:1
IMAP_EVENTSMutant == {"alert", "mail", "expunge", "uidvalidity", "close", "end"}
IMAP_EVENTS == {"alert", "mail", "expunge", "uidvalidity", "update", "close", "end"}

\* err.code of the errors the connection emits; "" stands for an error
\* without a code
ErrorCodes == {"ECONNRESET", "econnreset", "EPIPE", ""}

\* one entry of the history; arg is the argument of the event
Entry(src, name, arg, code) == [src |-> src, name |-> name, arg |-> arg, code |-> code]
\* the events and calls so far, and the argument of the next event
Steps == Cardinality({i \in 1..Len(history) : history[i].src \in {"imap", "call"}})

\* err && this.ending && err.code.toUpperCase() === 'ECONNRESET'
SuppressedAlways(code, flag) == toUpperCase(code) = "ECONNRESET"
SuppressedExact(code, flag) == flag /\ code = "ECONNRESET"
Suppressed(code, flag) == flag /\ toUpperCase(code) = "ECONNRESET"

\* new ImapSimple(imap)
InitSimple ==
  /\ variant = "helpers/getMessage.ts"
  /\ exists = [m \in Msgs |-> FALSE]
  /\ listeners = [m \in Msgs |-> NoListeners]
  /\ attributes = [m \in Msgs |-> Undefined]
  /\ parts = [m \in Msgs |-> <<>>]
  /\ isHeader = [m \in Msgs |-> 0]
  /\ promise = [m \in Msgs |-> Pending]
  /\ streams = [m \in Msgs |-> <<>>]
  /\ emitted = [m \in Msgs |-> NoHistory]
  /\ logical = NoLogical
  /\ NoSearch
  /\ NoPartData
  /\ NoBox
  /\ NoConnect
  /\ NoStruct
  /\ NoSimple

\* end(): the flag is set, a once('close') listener is registered and
\* imap.end() is called
SimpleEnd ==
  /\ Steps < MaxSteps
  /\ ending' = TRUE
  /\ closeOnce' = closeOnce + 1
  /\ history' = Append(history, Entry("call", "end()", Steps + 1, ""))
  /\ UNCHANGED <<msgVars, searchVars, partVars, boxVars, connVars, structVars>>

\* the connection emits an event other than 'error': the listener of the
\* constructor emits it on ImapSimple; on 'close' the once listeners of end()
\* then run and are removed
ImapEmit(ev) ==
  /\ Steps < MaxSteps
  /\ history' = history \o <<Entry("imap", ev, Steps + 1, "")>>
       \o (IF ev \in IMAP_EVENTS THEN <<Entry("simple", ev, Steps + 1, "")>> ELSE <<>>)
  /\ IF ev = "close"
     THEN /\ ending' = (IF closeOnce > 0 THEN FALSE ELSE ending)
          /\ closeOnce' = 0
     ELSE UNCHANGED <<ending, closeOnce>>
  /\ UNCHANGED <<msgVars, searchVars, partVars, boxVars, connVars, structVars>>

\* the connection emits 'error': the handler returns, emits the error on
\* ImapSimple, or throws when the flag is set and the error has no code
ImapEmitError(code) ==
  /\ Steps < MaxSteps
  /\ history' = history \o <<Entry("imap", "error", Steps + 1, code)>>
       \o (IF ending /\ code = "" THEN <<Entry("throw", "TypeError", Steps + 1, code)>>
           ELSE IF Suppressed(code, ending) THEN <<>>
           ELSE <<Entry("simple", "error", Steps + 1, code)>>)
  /\ UNCHANGED <<ending, closeOnce>>
  /\ UNCHANGED <<msgVars, searchVars, partVars, boxVars, connVars, structVars>>

NextSimple ==
  \/ SimpleEnd
  \/ \E ev \in {"ready", "alert", "mail", "expunge", "uidvalidity", "update",
                "close", "end"} : ImapEmit(ev)
  \/ \E code \in ErrorCodes : ImapEmitError(code)

SpecSimple == InitSimple /\ [][NextSimple]_vars

(***************************************************************************)
(* Properties of getMessage.                                               *)
(***************************************************************************)
\* the body events of m that produced the parts, in the order of parts
PartStreams(m) == [i \in 1..Len(parts[m]) |-> parts[m][i].stream]
\* the streams of m emitted before / after the 'end' of m
EarlyStreams(m) == {s \in 1..Len(streams[m]) : ~streams[m][s].late}
LateStreams(m) == {s \in 1..Len(streams[m]) : streams[m][s].late}
\* the 'attributes' payloads m emitted before its 'end'
EarlyAttrs(m) == SelectSeq(emitted[m].attrs, LAMBDA a : ~a.late)
Fulfilled(m) == promise[m].state = "fulfilled"
IsAscending(q) == \A i, j \in 1..Len(q) : i < j => q[i] < q[j]
\* the position of s in the order in which the streams of m ended
EndPosition(m, s) ==
  CHOOSE k \in 1..Len(emitted[m].endOrder) : emitted[m].endOrder[k] = s

RECURSIVE ConcatChunks(_)
\* the chunks of a stream, each decoded, concatenated in emission order
ConcatChunks(chunks) ==
  IF chunks = <<>> THEN <<>>
  ELSE ConcatChunks(SubSeq(chunks, 1, Len(chunks) - 1))
         \o Utf8ToString(chunks[Len(chunks)])

\* C1: every assembled part whose `which` starts with "HEADER" has the parsed
\* header mapping as its body, never the raw string, also when one message
\* carries two or more header-class parts.
C1_HeaderPartsAreMappings ==
  \A m \in Msgs : \A i \in 1..Len(parts[m]) :
    StartsWithHEADER(parts[m][i].which) => parts[m][i].body.kind = "mapping"

\* C2: whatever the interleaving of body events, stream completions, the
\* attributes event and the final end event, the Message yielded on end holds
\* exactly one part for each body event emitted.
C2_OnePartPerBodyEvent ==
  \A m \in Msgs :
    Fulfilled(m) =>
      /\ Len(parts[m]) = Cardinality(EarlyStreams(m))
      /\ {PartStreams(m)[i] : i \in 1..Len(parts[m])} = EarlyStreams(m)

\* C3: once getMessage has resolved, the resolved Message is never modified:
\* no part is appended and its attributes do not change.
C3_ResolvedMessageImmutable ==
  [][\A m \in Msgs :
       Fulfilled(m) =>
         /\ parts'[m] = parts[m]
         /\ promise'[m].attributes = promise[m].attributes]_vars

\* C4: a body or attributes event emitted after the end event is ignored: no
\* listener is put on its stream, nothing of it is accumulated or pushed, and
\* the attributes stay what they were when the Message was yielded.
C4_EventsAfterEndIgnored ==
  \A m \in Msgs :
    emitted[m].ended /\ Fulfilled(m) =>
      /\ \A s \in LateStreams(m) :
           /\ ~streams[m][s].dataListener
           /\ ~streams[m][s].endListener
           /\ streams[m][s].body = <<>>
           /\ \A i \in 1..Len(parts[m]) : parts[m][i].stream # s
      /\ attributes[m] = promise[m].attributes
      /\ ~listeners[m].body /\ ~listeners[m].attributes

\* C4 witness: after end the source emitted a body whose stream ended and an
\* attributes event, and the Message kept no trace of either.
C4_Witness ==
  /\ Fulfilled(1)
  /\ \E s \in LateStreams(1) : streams[1][s].ended
  /\ \E i \in 1..Len(emitted[1].attrs) : emitted[1].attrs[i].late
  /\ attributes[1] = Undefined
  /\ parts[1] = <<>>

\* the number of parts of m with this which, size and body
CountPart(m, which, size, body) ==
  Cardinality({i \in 1..Len(parts[m]) :
                 /\ parts[m][i].which = which
                 /\ parts[m][i].size = size
                 /\ parts[m][i].body = body})
\* the parts of m and of n are the same multiset of (which, size, body)
SameParts(m, n) ==
  /\ Len(parts[m]) = Len(parts[n])
  /\ \A i \in 1..Len(parts[m]) :
       LET p == parts[m][i] IN
       CountPart(m, p.which, p.size, p.body) = CountPart(n, p.which, p.size, p.body)

\* C5: the same logical message assembled from two event streams that differ
\* only in the order in which the body events arrive and drain yields two
\* Messages with the same multiset of parts and identical attributes.
C5_SameMessageAnyOrder ==
  (Fulfilled(1) /\ Fulfilled(2)) =>
    /\ SameParts(1, 2)
    /\ MessageOf(1).attributes = MessageOf(2).attributes

\* C6: parts lists the parts in the order in which their body streams ended,
\* whatever the order of the body events.
C6_PartsInDrainOrder ==
  \A m \in Msgs :
    PartStreams(m) = SelectSeq(emitted[m].endOrder, LAMBDA s : ~streams[m][s].late)

\* C6 witness: two parts, the stream of the second body event ended first.
C6_Witness == Len(parts[1]) = 2 /\ PartStreams(1) = <<2, 1>>

\* C7 as stated: parts is in the order in which the body events arrived.
C7_PartsInArrivalOrder == \A m \in Msgs : IsAscending(PartStreams(m))

\* C7 amended: a part A precedes a part B in parts when the body event of A
\* was emitted before that of B and the stream of A also ended before the
\* stream of B.
C7_ArrivalOrderWhenDrainedInOrder ==
  \A m \in Msgs : \A i, j \in 1..Len(parts[m]) :
    ( /\ parts[m][i].stream < parts[m][j].stream
      /\ EndPosition(m, parts[m][i].stream) < EndPosition(m, parts[m][j].stream) )
    => i < j

\* C7 witness: two parts whose streams ended in the order of their body events.
C7_Witness ==
  /\ Len(parts[1]) = 2
  /\ emitted[1].endOrder = <<1, 2>>
  /\ PartStreams(1) = <<1, 2>>

\* C8: a part whose `which` does not start with "HEADER" has as body the raw
\* string that is the concatenation, in emission order, of the chunks its
\* stream delivered before its end, and the which and size of its info.
C8_RawBodyIsConcatenation ==
  \A m \in Msgs : \A i \in 1..Len(parts[m]) :
    LET p == parts[m][i]
        st == streams[m][p.stream] IN
    ~StartsWithHEADER(p.which) =>
      /\ p.body = RawBody(ConcatChunks(st.chunks))
      /\ p.which = st.info.which
      /\ p.size = st.info.size

\* C8 witness: a non-header part assembled from two different chunks.
C8_Witness ==
  \E i \in 1..Len(parts[1]) :
    /\ parts[1][i].which = "TEXT"
    /\ Len(streams[1][parts[1][i].stream].chunks) = 2
    /\ streams[1][parts[1][i].stream].chunks[1]
         # streams[1][parts[1][i].stream].chunks[2]

\* C9: a message that emits no body event, one attributes event and then end
\* yields a Message with no parts and the payload of the attributes event.
C9_NoBodyMessage ==
  \A m \in Msgs :
    (Fulfilled(m) /\ EarlyStreams(m) = {} /\ Len(EarlyAttrs(m)) = 1) =>
      MessageOf(m) = [attributes |-> EarlyAttrs(m)[1].payload, parts |-> <<>>]

\* C9 witness: getMessage resolved for such a message.
C9_Witness ==
  /\ Fulfilled(1)
  /\ EarlyStreams(1) = {}
  /\ Len(EarlyAttrs(1)) = 1
  /\ promise[1].attributes = Attrs(2)

(***************************************************************************)
(* Properties of search.                                                   *)
(***************************************************************************)
\* C10: search resolves with the fetched messages in ascending order of their
\* fetch sequence number, each Message carrying its own seqNo, whatever the
\* order in which the getMessage promises complete.
C10_SearchResultInSeqNoOrder ==
  (searchPromise.state = "fulfilled" /\ Len(uids) > 0) =>
    LET result == searchPromise.value IN
    /\ \A i, j \in 1..Len(result) :
         i < j => fetchSeqNo[result[i]] < fetchSeqNo[result[j]]
    /\ \A i \in 1..Len(result) :
         /\ msgSeqNo[result[i]] = fetchSeqNo[result[i]]
         /\ reaction[result[i]] = "ran"

\* C10 witness: search resolved with two messages whose assemblies completed
\* in descending order of seqNo.
C10_Witness ==
  /\ searchPromise.state = "fulfilled"
  /\ Len(searchPromise.value) = 2
  /\ Len(retrievedOrder) = 2
  /\ fetchSeqNo[retrievedOrder[1]] > fetchSeqNo[retrievedOrder[2]]
  /\ searchPromise.value = <<retrievedOrder[2], retrievedOrder[1]>>

(***************************************************************************)
(* Properties of getPartData.                                              *)
(***************************************************************************)
\* the six encodings getPartData decodes
SupportedEncodings ==
  {"BASE64", "QUOTED-PRINTABLE", "7BIT", "8BIT", "BINARY", "UUENCODE"}
\* the callback of getPartData has run on a result of exactly one part
RanOnOnePart == partRun.ran /\ partRun.count = 1
\* the raw body the callback ran on
RawData == parts[partMessage][1].body.text

\* C11: whenever the assembled result holds a number of parts other than one,
\* the callback rejects with the count, no decoder is applied and the promise
\* is rejected, never fulfilled
C11_WrongPartCountRejects ==
  (partRun.ran /\ partRun.count # 1) =>
    /\ partRun.outcome.kind = "reject"
    /\ partRun.outcome.error.count = partRun.count
    /\ partRun.outcome.value.steps = <<>>
    /\ partPromise.state = "rejected"

C11_Witness ==
  /\ partRun.ran
  /\ partRun.count = 2
  /\ partPromise.state = "rejected"
  /\ partPromise.error.count = 2

\* C12: given exactly one part, a declared encoding whose upper-cased form is
\* none of the six makes the callback reject with an error that names the
\* encoding as declared; the promise is rejected (with that error unless the
\* fetch failed first) and is never fulfilled
C12_UnknownEncodingRejects ==
  (RanOnOnePart /\ toUpperCase(calledPart.encoding) \notin SupportedEncodings) =>
    /\ partRun.outcome.kind = "reject"
    /\ partRun.outcome.error.message = "Unknown encoding "
    /\ partRun.outcome.error.encoding = calledPart.encoding
    /\ partPromise.state = "rejected"
    /\ ~partFetch.emittedError => partPromise.error = partRun.outcome.error

C12_Witness ==
  /\ RanOnOnePart
  /\ calledPart.encoding = "x-custom"
  /\ partPromise.state = "rejected"
  /\ partPromise.error.encoding = "x-custom"

\* the lines 2..n-3 (1-based) of the n lines of a text, joined without
\* separator; nothing for n <= 4
MiddleLines(text) ==
  LET lines == Split(text, 10)
      n == Len(lines) IN
  IF n <= 4 THEN <<>> ELSE Join(SubSeq(lines, 2, n - 3))

\* C13: for UUENCODE the text handed to the uuencode decoder is the
\* concatenation of the lines 2..n-3 of the body, empty for n <= 4
C13_UuencodeMiddleLines ==
  (RanOnOnePart /\ toUpperCase(calledPart.encoding) = "UUENCODE") =>
    /\ partRun.outcome.kind = "resolve"
    /\ partRun.outcome.value.steps = <<"uuencode.decode">>
    /\ partRun.outcome.value.text = MiddleLines(RawData)

C13_Witness ==
  /\ RanOnOnePart
  /\ calledPart.encoding = "uuencode"
  /\ RawData = <<98, 10, 77, 10, 78, 10, 96, 10, 101, 10>>
  /\ partRun.outcome.value.text = <<77, 78>>
  /\ partPromise.state = "fulfilled"

\* C14: given exactly one part and no failure of the fetch, every letter-casing
\* of the six encodings applies the one rule of that encoding (8BIT and BINARY
\* share one) and the promise resolves
C14_SupportedEncodingResolves ==
  (RanOnOnePart /\ ~partFetch.emittedError
     /\ toUpperCase(calledPart.encoding) \in SupportedEncodings) =>
    /\ partRun.outcome.rule =
         (IF toUpperCase(calledPart.encoding) \in {"8BIT", "BINARY"}
          THEN "8BIT/BINARY" ELSE toUpperCase(calledPart.encoding))
    /\ partPromise.state = "fulfilled"

\* C15: for QUOTED-PRINTABLE the UTF-8 step follows the quoted-printable
\* decoding exactly when params.charset is present and equals UTF-8 whatever
\* its casing; otherwise the quoted-printable decoding alone is applied and
\* nothing is thrown
C15_Utf8StepIffCharsetUtf8 ==
  (RanOnOnePart /\ toUpperCase(calledPart.encoding) = "QUOTED-PRINTABLE") =>
    IF calledPart.params.present /\ toUpperCase(calledPart.params.charset) = "UTF-8"
    THEN \/ partRun.outcome.kind = "throw"
         \/ partRun.outcome.value.steps = <<"qp.decode", "utf8.decode">>
    ELSE /\ partRun.outcome.kind = "resolve"
         /\ partRun.outcome.value.steps = <<"qp.decode">>
         /\ partRun.outcome.value.text = QpDecode(RawData)

C15_Witness ==
  /\ RanOnOnePart
  /\ calledPart.encoding = "Quoted-Printable"
  /\ calledPart.params = Params("Utf-8")
  /\ RawData = <<99, 97, 102, 61, 67, 51, 61, 65, 57>>
  /\ partPromise.state = "fulfilled"
  /\ partPromise.value.text = <<99, 97, 102, 233>>

\* C16: one call issues exactly one fetch, and once the promise is settled no
\* later event of the fetch or of the assembly changes it
C16_OneFetchSettlesOnce ==
  [][/\ fetchCalls' = (IF partFetch'.created THEN 1 ELSE 0)
     /\ partPromise.state # "pending" => partPromise' = partPromise]_vars

C16_Witness ==
  /\ partRun.ran
  /\ partRun.outcome.kind = "resolve"
  /\ partFetch.emittedError
  /\ ~partFetch.emittedEnd
  /\ partPromise.state = "fulfilled"
  /\ fetchCalls = 1

\* C17: the promise of getMessage is never rejected, and it is pending in
\* every state in which the message has not emitted end
C17_PendingUntilEndNeverRejected ==
  \A m \in Msgs :
    /\ promise[m].state \in {"pending", "fulfilled"}
    /\ ~emitted[m].ended => promise[m].state = "pending"

C17_Witness ==
  /\ ~emitted[1].ended
  /\ Len(parts[1]) >= 1
  /\ \A s \in 1..Len(streams[1]) : streams[1][s].ended
  /\ attributes[1] # Undefined
  /\ promise[1].state = "pending"

\* a part that was emitted for message m: its size and every character of its
\* body are those of m
OwnPart(m, pt) ==
  /\ pt.which = OwnInfo(m).which
  /\ pt.size = OwnInfo(m).size
  /\ \A k \in 1..Len(pt.body.text) : <<pt.body.text[k]>> = OwnChunk(m)

\* C18: with the events of two messages of one search interleaved in every
\* order, the accumulators and the resolved Message of each message hold only
\* parts and attributes emitted for that message
C18_OnlyOwnPartsAndAttributes ==
  \A m \in PairMsgs :
    /\ \A i \in 1..Len(MessageOf(m).parts) : OwnPart(m, MessageOf(m).parts[i])
    /\ attributes[m] \in {Undefined, Attrs(100 + fetchSeqNo[m])}
    /\ MessageOf(m).attributes \in {Undefined, Attrs(100 + fetchSeqNo[m])}

C18_Witness ==
  /\ searchPromise.state = "fulfilled"
  /\ retrievedOrder = <<2, 1>>
  /\ \A m \in PairMsgs :
       /\ Len(MessageOf(m).parts) >= 1
       /\ Len(MessageOf(m).parts[1].body.text) >= 1
       /\ MessageOf(m).attributes = Attrs(100 + m)

\* C19: after deleteMessage(uids) resolves, the mailbox holds exactly the
\* messages that were in it before the call and whose uid is not among uids
C19_ExactlyTheSpecifiedAreGone ==
  deletePromise.state = "fulfilled" =>
    \A u \in BoxUids :
      mailbox[u] # "absent" <=> (mailboxBefore[u] # "absent" /\ u \notin deleteUids)

\* the option that carries the callback of a server event
OptionFor(ev) ==
  IF ev = "mail" THEN "onMail" ELSE IF ev = "expunge" THEN "onExpunge" ELSE "onUpdate"
\* the call `name` comes before imap.connect() in the log
BeforeConnect(name) ==
  \E i, j \in 1..Len(connLog) : i < j /\ connLog[i] = name /\ connLog[j] = "connect"

\* C20: once connect() has been called on the connection, every supplied
\* callback was registered before it and has been invoked for every event of
\* its kind the connection emitted
C20_SuppliedCallbacksInvoked ==
  Connecting =>
    \A ev \in ServerEvents :
      OptionFor(ev) \in options =>
        /\ BeforeConnect("on " \o ev)
        /\ invoked[ev] = emittedCount[ev]

RECURSIVE Flatten(_)
\* the non-array nodes of a struct that have a partID, depth first and left
\* to right
Flatten(st) ==
  IF st = <<>> THEN <<>>
  ELSE (IF Head(st).isArray THEN Flatten(Head(st).items)
        ELSE IF Head(st).partID # "" THEN <<Head(st)>>
        ELSE <<>>) \o Flatten(Tail(st))

\* C21: getParts returns the entries already in the parts list followed by
\* the non-array nodes with a partID, depth first and left to right
C21_FlatPartsInOrder ==
  partsResult.done => partsResult.list = partsArg.list \o Flatten(struct)

C21_Witness ==
  /\ partsResult.done
  /\ Len(struct) = 4
  /\ partsArg.list # <<>>
  /\ partsResult.list =
       <<Leaf("0", "earlier"), Leaf("1", "text"), Leaf("2.1", "html"),
         Leaf("2.2", "image"), Leaf("3", "pdf")>>

\* the history entry i is an 'error' of the connection with code ECONNRESET
\* in some letter case
IsReset(i) ==
  /\ history[i].src = "imap"
  /\ history[i].name = "error"
  /\ toUpperCase(history[i].code) = "ECONNRESET"
\* entry i lies between a call of end() and the connection's following close
AfterEndBeforeClose(i) ==
  \E j \in 1..(i - 1) :
    /\ history[j].src = "call"
    /\ \A k \in (j + 1)..(i - 1) :
         ~(history[k].src = "imap" /\ history[k].name = "close")
\* ImapSimple emitted the event of entry i to its listeners
Reemitted(i) ==
  /\ i < Len(history)
  /\ history[i + 1] = [history[i] EXCEPT !.src = "simple"]

\* C22: an ECONNRESET error of the connection, in any letter case, between a
\* call of end() and the following close is not emitted by ImapSimple
C22_ResetSuppressedWhileEnding ==
  \A i \in 1..Len(history) :
    (IsReset(i) /\ AfterEndBeforeClose(i)) =>
      (i = Len(history) \/ history[i + 1].src # "simple")

C22_Witness ==
  /\ Len(history) = 4
  /\ history[1].src = "call"
  /\ history[2].src = "imap" /\ history[2].code = "econnreset"
  /\ history[3].src = "imap" /\ history[3].name = "close"
  /\ history[4].src = "simple" /\ history[4].name = "close"

\* C23: once the connection has emitted close after the last call of end(),
\* or when end() was never called, the flag is false, and every error of the
\* connection outside a call-to-close window is emitted by ImapSimple
C23_SuppressionIsTemporary ==
  /\ ~AfterEndBeforeClose(Len(history) + 1) => ~ending
  /\ \A i \in 1..Len(history) :
       (history[i].src = "imap" /\ history[i].name = "error"
          /\ ~AfterEndBeforeClose(i)) => Reemitted(i)

C23_Witness ==
  /\ Len(history) = 6
  /\ history[1].src = "call"
  /\ IsReset(2) /\ history[3].name = "close" /\ history[3].src = "imap"
  /\ IsReset(5) /\ history[6] = [history[5] EXCEPT !.src = "simple"]
  /\ ~ending

\* C24: every alert, mail, expunge, uidvalidity, update, close and end event of
\* the connection is followed at once by the same event with the same argument
\* on ImapSimple, and ImapSimple emits no such event otherwise
C24_EventsPassedThroughOnce ==
  LET Names == {"alert", "mail", "expunge", "uidvalidity", "update", "close", "end"} IN
  \A i \in 1..Len(history) :
    /\ (history[i].src = "imap" /\ history[i].name \in Names) => Reemitted(i)
    /\ (history[i].src = "simple" /\ history[i].name \in Names) =>
         (i > 1 /\ history[i - 1] = [history[i] EXCEPT !.src = "imap"])

C24_Witness ==
  /\ Len(history) = 7
  /\ history[1].src = "call"
  /\ history[2].name = "update" /\ history[3].name = "update"
  /\ history[3].src = "simple" /\ history[3].arg = 2
  /\ history[4].name = "close" /\ history[5].src = "simple"
  /\ history[6].name = "end" /\ history[7].src = "simple" /\ history[7].arg = 4

C26_SettledByFirstEventOnly ==
  Connecting =>
    IF connHistory.first = ""
    THEN connectPromise.state = "pending" /\ handlerRuns = 0
    ELSE /\ connectPromise.state =
              (IF connHistory.first = "ready" THEN "fulfilled" ELSE "rejected")
         /\ connectPromise.value.name =
              (IF connHistory.first = "ready" THEN "ImapSimple"
               ELSE IF connHistory.first = "close" THEN "ConnectionClosedError"
               ELSE IF connHistory.first = "end" THEN "ConnectionEndedError"
               ELSE IF connHistory.err.source = "timeout-auth"
               THEN "ConnectionTimeoutError"
               ELSE connHistory.err.name)
         /\ handlerRuns = 1
         /\ \A ev \in {"ready", "error", "close", "end"} : ~connListeners[ev]

C26_Witness ==
  /\ connHistory.first = "close"
  /\ connHistory.ready /\ connHistory.error /\ connHistory.end
  /\ connectPromise.state = "rejected"
  /\ connectPromise.value.name = "ConnectionClosedError"
  /\ handlerRuns = 1

(***************************************************************************)
(* Properties of search: settlement.                                       *)
(***************************************************************************)
\* the fetch of a non-empty uid list has emitted 'end' and no 'error', and
\* every message it emitted has ended
FetchEndedCleanly ==
  /\ Len(uids) > 0
  /\ fetch.emittedEnd
  /\ ~fetch.emittedError
  /\ \A m \in Msgs : exists[m] => emitted[m].ended
\* this step resolves the search of a non-empty uid list
ResolvingStep ==
  /\ searchPromise.state = "pending"
  /\ searchPromise'.state = "fulfilled"
  /\ Len(uids') > 0
\* in this step the fetch emits 'error' and has not emitted 'end'
ErrorBeforeEndStep ==
  /\ ~fetch.emittedError
  /\ fetch'.emittedError
  /\ ~fetch.emittedEnd
\* in this step the callback of the server search runs with an error
SearchErrorStep ==
  /\ ~fetch.created
  /\ searchPromise.state = "pending"
  /\ searchPromise'.state = "rejected"
RejectedWith(p, err) == p.state = "rejected" /\ p.value = err

\* C27: once the server search returned a non-empty uid list and the fetch
\* emitted 'end' with no 'error', every emitted message having ended, the
\* promise of search eventually settles, however many messages were emitted.
C27_SearchSettlesAfterCleanEnd ==
  FetchEndedCleanly ~> (searchPromise.state # "pending")

\* C28: the step that resolves search for a non-empty uid list comes after
\* the assembly of every message the fetch emitted, and the result holds
\* exactly uids.length messages, one for each emitted message.
C28_ResolvesAfterEveryAssembly ==
  [][ResolvingStep =>
       /\ \A m \in Msgs : exists'[m] => reaction'[m] = "ran"
       /\ Len(searchPromise'.value) = Len(uids')
       /\ \A m \in Msgs :
            exists'[m] => \E i \in 1..Len(searchPromise'.value) :
                            searchPromise'.value[i] = m]_vars

\* C29 as stated: a fetch 'error' emitted before the fetch's 'end' leaves the
\* promise of search rejected with that error.
C29_FetchErrorRejects ==
  [][ErrorBeforeEndStep => RejectedWith(searchPromise', "fetchError")]_vars

\* C29: a fetch 'error' emitted before the fetch's 'end' rejects search with
\* that error unless search has settled already; a settled promise never
\* changes again, so an assembly completing after the rejection does not
\* resolve it; and an error of the server search step rejects with that error
\* and no fetch is ever created.
C29_FetchErrorRejectsUnlessSettled ==
  [][(ErrorBeforeEndStep =>
        IF searchPromise.state = "pending"
        THEN RejectedWith(searchPromise', "fetchError")
        ELSE searchPromise' = searchPromise)
     /\ (searchPromise.state # "pending" => searchPromise' = searchPromise)
     /\ (RejectedWith(searchPromise, "searchError") => ~fetch'.created)
     /\ (SearchErrorStep =>
           RejectedWith(searchPromise', "searchError") /\ ~fetch'.created)]_vars

\* C29 witness: the fetch emitted 'error' before its 'end', search is rejected
\* with it, and afterwards as many assemblies completed as there are uids.
C29_Witness ==
  /\ RejectedWith(searchPromise, "fetchError")
  /\ fetch.emittedError
  /\ ~fetch.emittedEnd
  /\ Len(uids) > 0
  /\ messagesRetrieved = Len(uids)

====
